---- MODULE Spec2Model ----
(***************************************************************************)
(* Model of the RSS-to-Kindle digest scripts:                              *)
(*   src/kindle_digest.py  (full-article variant, TOC, attachment mail)    *)
(*   src/Kindle_digest.py  (summary-only variant, inline mail)             *)
(* Python strings are sequences of one-character strings.  The renderer's  *)
(* own markup is written with the tokens "<p>" and "</p>", which never     *)
(* occur in source content.  Definitions of the summary-only variant carry *)
(* the prefix K_.                                                          *)
(***************************************************************************)
EXTENDS Integers, Sequences, FiniteSets, TLC

\* ---------------------------------------------------------------- bounds
NumFeeds == 2
MaxArticles == 2
MaxLen == 7
MaxOver == 2

\* ------------------------------------------------------ program constants
SubstanceThreshold == 200
TocSummaryLen == 150
K_SummaryLen == 500

\* ------------------------------------------------------- Python strings
WS == {" ", "\n"}

Rep(c, n) == [i \in 1..n |-> c]

Ellipsis == <<".", ".", ".">>

NoTitle == <<"N", "o", " ", "t", "i", "t", "l", "e">>

UnknownDate == <<"U", "n", "k", "n", "o", "w", "n", " ", "d", "a", "t", "e">>

ContentNotAvailable ==
  <<"C", "o", "n", "t", "e", "n", "t", " ", "n", "o", "t", " ",
    "a", "v", "a", "i", "l", "a", "b", "l", "e">>

NoSummaryAvailable ==
  <<"N", "o", " ", "s", "u", "m", "m", "a", "r", "y", " ",
    "a", "v", "a", "i", "l", "a", "b", "l", "e">>

\* None and the optional string returned by fetch_full_article
None == [none |-> TRUE, val |-> <<>>]

Some(s) == [none |-> FALSE, val |-> s]

\* Python truthiness of an optional string: None and '' are falsy
Truthy(o) == (~o.none) /\ o.val # <<>>

\* dict.get(key, default)
DictGet(d, k, default) == IF k \in DOMAIN d THEN d[k] ELSE default

\* s[:n]
Prefix(s, n) == SubSeq(s, 1, IF Len(s) < n THEN Len(s) ELSE n)

\* str.strip(): drop leading and trailing whitespace
StrStrip(s) ==
  LET keep == {i \in 1..Len(s) : s[i] \notin WS}
  IN  IF keep = {} THEN <<>>
      ELSE LET a == CHOOSE i \in keep : \A j \in keep : i <= j
               b == CHOOSE i \in keep : \A j \in keep : j <= i
           IN  SubSeq(s, a, b)

\* end of the lazy match of '<[^<]+?>' starting at position i, or 0
TagMatchEnd(s, i) ==
  LET ends == {j \in (i + 2)..Len(s) :
                 /\ s[j] = ">"
                 /\ \A k \in (i + 1)..(j - 1) : s[k] # "<"}
  IN  IF i > Len(s) \/ s[i] # "<" \/ ends = {} THEN 0
      ELSE CHOOSE j \in ends : \A m \in ends : j <= m

RECURSIVE ReSubFrom(_, _)
\* the scan from position i: text up to the next position where the pattern
\* matches is kept, the match is dropped, the scan resumes behind it
ReSubFrom(s, i) ==
  LET starts == {k \in i..Len(s) : TagMatchEnd(s, k) # 0}
  IN  IF starts = {} THEN SubSeq(s, i, Len(s))
      ELSE LET m == CHOOSE k \in starts : \A x \in starts : k <= x
           IN  SubSeq(s, i, m - 1) \o ReSubFrom(s, TagMatchEnd(s, m) + 1)

\* re.sub('<[^<]+?>', '', s): one left-to-right pass, non-overlapping
ReSubTags(s) == ReSubFrom(s, 1)

RECURSIVE SplitBlank(_)
\* s.split('\n\n')
SplitBlank(s) ==
  LET seps == {i \in 1..(Len(s) - 1) : s[i] = "\n" /\ s[i + 1] = "\n"}
  IN  IF seps = {} THEN <<s>>
      ELSE LET i == CHOOSE x \in seps : \A y \in seps : x <= y
           IN  <<SubSeq(s, 1, i - 1)>> \o SplitBlank(SubSeq(s, i + 2, Len(s)))

RECURSIVE ReplaceTriple(_)
\* s.replace('\n\n\n', '\n\n')
ReplaceTriple(s) ==
  LET hits == {i \in 1..(Len(s) - 2) :
                 s[i] = "\n" /\ s[i + 1] = "\n" /\ s[i + 2] = "\n"}
  IN  IF hits = {} THEN s
      ELSE LET i == CHOOSE x \in hits : \A y \in hits : x <= y
           IN  SubSeq(s, 1, i - 1) \o <<"\n", "\n">>
                 \o ReplaceTriple(SubSeq(s, i + 3, Len(s)))

RECURSIVE JoinBlank(_)
\* '\n\n'.join(parts)
JoinBlank(parts) ==
  IF parts = <<>> THEN <<>>
  ELSE IF Len(parts) = 1 THEN parts[1]
  ELSE parts[1] \o <<"\n", "\n">> \o JoinBlank(Tail(parts))

RECURSIVE Concat(_)
\* ''.join(parts)
Concat(parts) ==
  IF parts = <<>> THEN <<>> ELSE parts[1] \o Concat(Tail(parts))

RECURSIVE SelectSeq2(_, _)
SelectSeq2(s, keepIdx) ==
  IF s = <<>> THEN <<>>
  ELSE (IF 1 \in keepIdx THEN <<s[1]>> ELSE <<>>)
         \o SelectSeq2(Tail(s), {i - 1 : i \in keepIdx \ {1}})

\* [p.strip() for p in parts if p.strip()]
StrippedNonEmpty(parts) ==
  LET st == [i \in 1..Len(parts) |-> StrStrip(parts[i])]
  IN  SelectSeq2(st, {i \in 1..Len(st) : st[i] # <<>>})

\* ---------------------------------------------------- fetch_full_article
\* priority list of content selectors
Selectors ==
  <<"article", "role-article", "article-body", "article-content",
    "story-body", "post-content", "entry-content", "main">>

\* A fetched page: raises says requests.get / raise_for_status / the parser
\* threw; found maps each selector present in the page to the texts of the
\* <p> elements under it; body is the same for <body>, when there is one.
\* The first selector of the list that the page has wins, else <body>.
SelectContainer(page) ==
  LET present == {i \in 1..Len(Selectors) : Selectors[i] \in DOMAIN page.found}
  IN  IF present # {}
        THEN Some(page.found[Selectors[CHOOSE i \in present :
                                         \A j \in present : i <= j]])
      ELSE IF page.hasBody THEN Some(page.body)
      ELSE None

ThresholdPassesGE(text_content) == Len(text_content) >= SubstanceThreshold

ThresholdPasses(text_content) == Len(text_content) > SubstanceThreshold

ExtractText(paragraphs) == ReplaceTriple(JoinBlank(StrippedNonEmpty(paragraphs)))

fetch_full_article(page) ==
  IF page.raises THEN None
  ELSE LET article_content == SelectContainer(page)
       IN  IF article_content.none THEN None
           ELSE LET text_content == ExtractText(article_content.val)
                IN  IF ThresholdPasses(text_content) THEN Some(text_content)
                    ELSE None

\* --------------------------------------------------------- configuration
FeedNames ==
  <<"BBC News", "The Economist", "The Verge", "TechRadar", "MacRumors", "Sky News">>

\* CONFIG['feeds'], cut down to NumFeeds feeds; the first takes up to
\* MaxArticles entries, the others one entry each
CONFIG ==
  [feeds |-> [i \in 1..NumFeeds |->
                [name |-> FeedNames[i],
                 max_articles |-> IF i = 1 THEN MaxArticles ELSE 1]]]

\* ------------------------------------------------------- the outside world
\* feed entries as feedparser delivers them: dicts in which any key may be absent
EntryA ==
  [title |-> <<"A">>, link |-> <<"u">>, published |-> <<"d">>,
   summary |-> <<"<", "b", ">", "S", " ", "s", "<", "/", "b", ">">>]

EntryB == [description |-> <<>>]

EntryC == [link |-> <<"v">>, description |-> <<"D">>]

EntryKinds == {EntryA, EntryB}

SeqsUpTo(S, n) == UNION {[1..k -> S] : k \in 0..n}

\* what happens inside the try of fetch_articles: feedparser delivers a list of
\* entries, and either the loop runs to its end or something throws on the way
FeedOutcomes(max_articles) ==
  {[raises |-> r, entries |-> es] :
     r \in BOOLEAN, es \in SeqsUpTo(EntryKinds, max_articles + 1)}

NoContainers == [x \in {} |-> <<>>]

PageErr == [raises |-> TRUE, found |-> NoContainers, hasBody |-> FALSE, body |-> <<>>]

\* A page whose selected container yields n characters of text (n >= 4):
\*   "one"     <article> holding one paragraph of n characters
\*   "two"     <main> holding two padded paragraphs and a blank one between,
\*             n1 + 2 + n2 = n after strip and join
\*   "triple"  role=article holding one paragraph with three line breaks inside,
\*             n + 1 characters before the replace, n after
\*   "body"    no selector matches, <body> holds the paragraph
\*   "shadow"  <article> short, <main> long: the first selector wins
\*   "nobody"  nothing to select
ProbePage(n, shape) ==
  LET n1 == (n - 2) \div 2
      n2 == n - 2 - n1
      ok(found, hasBody, body) ==
        [raises |-> FALSE, found |-> found, hasBody |-> hasBody, body |-> body]
  IN  CASE shape = "one" ->
             ok([x \in {"article"} |-> <<Rep("a", n)>>], TRUE, <<<<"x">>>>)
        [] shape = "two" ->
             ok([x \in {"main"} |->
                   << <<" ">> \o Rep("a", n1) \o <<"\n">>, <<" ", "\n">>, Rep("b", n2) >>],
                TRUE, <<Rep("c", n + 1)>>)
        [] shape = "triple" ->
             ok([x \in {"role-article"} |->
                   << Rep("a", n1) \o <<"\n", "\n", "\n">> \o Rep("b", n2) >>],
                FALSE, <<>>)
        [] shape = "body" -> ok(NoContainers, TRUE, <<Rep("a", n)>>)
        [] shape = "shadow" ->
             ok([x \in {"article", "main"} |->
                   IF x = "article" THEN <<<<"x">>>> ELSE <<Rep("a", n)>>],
                TRUE, <<Rep("a", n)>>)
        [] shape = "nobody" -> ok(NoContainers, FALSE, <<>>)
        [] shape = "raises" -> PageErr

\* the pages served during a full run: an error, 201 characters, 200 characters
Pages ==
  {PageErr, ProbePage(SubstanceThreshold + 1, "two"), ProbePage(SubstanceThreshold, "one")}

\* --------------------------------------------------------- fetch_articles
\* the article dict built from one feed entry (kindle_digest.py)
MakeArticle(entry) ==
  [title |-> DictGet(entry, "title", NoTitle),
   link |-> DictGet(entry, "link", <<>>),
   summary |-> DictGet(entry, "summary", DictGet(entry, "description", <<>>)),
   published |-> DictGet(entry, "published", UnknownDate),
   full_content |-> None]

\* the "if article['link']" block: a truthy extraction result is stored
WithFullContent(article, page) ==
  IF article.link # <<>>
    THEN LET full_content == fetch_full_article(page)
         IN  IF Truthy(full_content)
               THEN [article EXCEPT !.full_content = full_content]
               ELSE article
    ELSE article

\* the articles the loop builds from feed.entries[:max_articles], in feed order
ArticlesOf(feed, pages, max_articles) ==
  LET entries == Prefix(feed.entries, max_articles)
  IN  [k \in 1..Len(entries) |-> WithFullContent(MakeArticle(entries[k]), pages[k])]

fetch_articles_partial(feed, pages, max_articles) ==
  ArticlesOf(feed, pages, max_articles)

\* on an exception the handler returns [], whatever the loop had collected
fetch_articles(feed, pages, max_articles) ==
  IF feed.raises THEN <<>> ELSE ArticlesOf(feed, pages, max_articles)

\* Kindle_digest.py: no full_content key, another summary default
K_MakeArticle(entry) ==
  [title |-> DictGet(entry, "title", NoTitle),
   link |-> DictGet(entry, "link", <<>>),
   summary |-> DictGet(entry, "summary",
                       DictGet(entry, "description", NoSummaryAvailable)),
   published |-> DictGet(entry, "published", UnknownDate)]

K_fetch_articles(feed, max_articles) ==
  IF feed.raises THEN <<>>
  ELSE LET entries == Prefix(feed.entries, max_articles)
       IN  [k \in 1..Len(entries) |-> K_MakeArticle(entries[k])]

\* ----------------------------------------------------- create_html_digest
\* article_id = f"article-{article_counter}" and the href that targets it
ArticleId(n) == <<"article-", n>>

Href(n) == <<"#">> \o ArticleId(n)

\* x or y, for an optional string x and a string y
PyOr(x, y) == IF Truthy(x) THEN x.val ELSE y

\* content of a TOC entry before truncation (lines 241-242)
TocContent(article) ==
  StrStrip(ReSubTags(PyOr(DictGet(article, "full_content", None),
                          DictGet(article, "summary", <<>>))))

ShortSummary_keep(content) ==
  IF Len(content) > TocSummaryLen + 1
    THEN Prefix(content, TocSummaryLen + 1) \o Ellipsis
    ELSE content

\* line 243
ShortSummary(content) ==
  IF Len(content) > TocSummaryLen
    THEN Prefix(content, TocSummaryLen) \o Ellipsis
    ELSE content

TocItem(article, n) ==
  [tag |-> "toc-item", href |-> Href(n), title |-> article.title,
   summary |-> ShortSummary(TocContent(article))]

\* content of a body block before paragraph formatting (lines 270-274)
BodyContent(article) ==
  StrStrip(ReSubTags(PyOr(DictGet(article, "full_content", None),
                          DictGet(article, "summary", ContentNotAvailable))))

\* lines 277-278: the paragraphs kept, and their <p>...</p> concatenation
BodyParagraphs(content) == StrippedNonEmpty(SplitBlank(content))

FormatParagraphs(paragraphs) ==
  Concat([i \in 1..Len(paragraphs) |-> <<"<p>">> \o paragraphs[i] \o <<"</p>">>])

ArticleBlock(article, n) ==
  [tag |-> "article", id |-> ArticleId(n), title |-> article.title,
   published |-> article.published,
   content |-> FormatParagraphs(BodyParagraphs(BodyContent(article))),
   link |-> article.link]

RECURSIVE TocFrom_noguard(_, _, _)
TocFrom_noguard(all_feeds, idx, article_counter) ==
  IF idx > Len(all_feeds) THEN <<>>
  ELSE LET articles == all_feeds[idx].articles
       IN  <<[tag |-> "h3", name |-> all_feeds[idx].name]>>
             \o [k \in 1..Len(articles) |-> TocItem(articles[k], article_counter + k)]
             \o TocFrom_noguard(all_feeds, idx + 1, article_counter + Len(articles))

RECURSIVE TocFrom(_, _, _)
\* the TOC loop from feed idx on (1-based), article_counter articles done
TocFrom(all_feeds, idx, article_counter) ==
  IF idx > Len(all_feeds) THEN <<>>
  ELSE LET articles == all_feeds[idx].articles
       IN  IF articles # <<>>
             THEN <<[tag |-> "h3", name |-> all_feeds[idx].name]>>
                    \o [k \in 1..Len(articles) |->
                          TocItem(articles[k], article_counter + k)]
                    \o TocFrom(all_feeds, idx + 1, article_counter + Len(articles))
             ELSE TocFrom(all_feeds, idx + 1, article_counter)

RECURSIVE BodyFrom_persection(_, _, _)
BodyFrom_persection(all_feeds, idx, article_counter) ==
  IF idx > Len(all_feeds) THEN <<>>
  ELSE LET articles == all_feeds[idx].articles
       IN  IF articles # <<>>
             THEN <<[tag |-> "h2", name |-> all_feeds[idx].name,
                     class |-> IF idx - 1 > 0 THEN "source-divider" ELSE ""]>>
                    \o [k \in 1..Len(articles) |-> ArticleBlock(articles[k], k)]
                    \o BodyFrom_persection(all_feeds, idx + 1, 0)
             ELSE BodyFrom_persection(all_feeds, idx + 1, 0)

RECURSIVE BodyFrom(_, _, _)
\* the body loop; enumerate() counts from 0, so idx - 1 is Python's idx
BodyFrom(all_feeds, idx, article_counter) ==
  IF idx > Len(all_feeds) THEN <<>>
  ELSE LET articles == all_feeds[idx].articles
       IN  IF articles # <<>>
             THEN <<[tag |-> "h2", name |-> all_feeds[idx].name,
                     class |-> IF idx - 1 > 0 THEN "source-divider" ELSE ""]>>
                    \o [k \in 1..Len(articles) |->
                          ArticleBlock(articles[k], article_counter + k)]
                    \o BodyFrom(all_feeds, idx + 1, article_counter + Len(articles))
             ELSE BodyFrom(all_feeds, idx + 1, article_counter)

create_html_digest(all_feeds) ==
  [toc |-> TocFrom(all_feeds, 1, 0), body |-> BodyFrom(all_feeds, 1, 0)]

\* Kindle_digest.py: no TOC, no ids; the summary is cut at 500 characters
K_Summary(article) ==
  LET summary == ReSubTags(article.summary)
  IN  IF Len(summary) > K_SummaryLen
        THEN Prefix(summary, K_SummaryLen) \o Ellipsis
        ELSE summary

K_ArticleBlock(article) ==
  [tag |-> "article", title |-> article.title, published |-> article.published,
   content |-> K_Summary(article), link |-> article.link]

RECURSIVE K_BodyFrom(_, _)
K_BodyFrom(all_feeds, idx) ==
  IF idx > Len(all_feeds) THEN <<>>
  ELSE LET articles == all_feeds[idx].articles
       IN  IF articles # <<>>
             THEN <<[tag |-> "h2", name |-> all_feeds[idx].name, class |-> ""]>>
                    \o [k \in 1..Len(articles) |-> K_ArticleBlock(articles[k])]
                    \o K_BodyFrom(all_feeds, idx + 1)
             ELSE K_BodyFrom(all_feeds, idx + 1)

K_create_html_digest(all_feeds) == [toc |-> <<>>, body |-> K_BodyFrom(all_feeds, 1)]

\* ---------------------------------------------------------- send_to_kindle
\* the calls of send_to_kindle that can throw, in program order; "build" is the
\* construction of the MIME message, "connect" is smtplib.SMTP(host, 587)
SendSteps == <<"build", "connect", "starttls", "login", "send_message", "quit">>

StepIndex(step) == CHOOSE i \in 1..Len(SendSteps) : SendSteps[i] = step

\* the calls that completed when the call failAt throws ("none": nothing throws)
CompletedCalls(failAt) ==
  IF failAt = "none" THEN SendSteps
  ELSE SubSeq(SendSteps, 1, StepIndex(failAt) - 1)

SendReturn_always(failAt) == TRUE

\* return True after quit; the except branch returns False
SendReturn(failAt) == failAt = "none"

Has(calls, step) == \E i \in 1..Len(calls) : calls[i] = step

\* ------------------------------------------------------------------ state
VARIABLES
  variant,             \* which script runs: "kindle_digest" or "Kindle_digest"
  pc,                  \* position of main
  all_feeds_articles,  \* main's list of {name, articles}
  failed,              \* indices of the feeds whose fetch threw (history)
  html_content,        \* result of create_html_digest, None before
  preview,             \* content of digest_preview.html, None when not written
  smtp,                \* calls completed on the mail server, in order
  send_calls,          \* number of calls of send_to_kindle
  success,             \* value returned by send_to_kindle: "unset", TRUE, FALSE
  printed,             \* final summary printed by main: "", "done", "failed"
  probe                \* the input under test of the single-function runs

vars ==
  <<variant, pc, all_feeds_articles, failed, html_content, preview, smtp,
    send_calls, success, printed, probe>>

NoHtml == [toc |-> <<>>, body |-> <<>>, rendered |-> FALSE]

Rendered(h) == [toc |-> h.toc, body |-> h.body, rendered |-> TRUE]

NoProbe == [kind |-> "none"]

Init ==
  /\ variant \in {"kindle_digest", "Kindle_digest"}
  /\ pc = "fetch"
  /\ all_feeds_articles = <<>>
  /\ failed = {}
  /\ html_content = NoHtml
  /\ preview = NoHtml
  /\ smtp = <<>>
  /\ send_calls = 0
  /\ success = "unset"
  /\ printed = ""
  /\ probe = NoProbe

\* ------------------------------------------------------------------- main
\* one iteration of "for feed in CONFIG['feeds']" (kindle_digest.py 349-356)
main_fetch ==
  /\ variant = "kindle_digest"
  /\ pc = "fetch"
  /\ LET i == Len(all_feeds_articles) + 1
         feed_cfg == CONFIG.feeds[i]
     IN  \E feed \in FeedOutcomes(feed_cfg.max_articles),
                pages \in [1..feed_cfg.max_articles -> Pages] :
           /\ all_feeds_articles' =
                Append(all_feeds_articles,
                       [name |-> feed_cfg.name,
                        articles |-> fetch_articles(feed, pages, feed_cfg.max_articles)])
           /\ failed' = IF feed.raises THEN failed \cup {i} ELSE failed
           /\ pc' = IF i = Len(CONFIG.feeds) THEN "render" ELSE "fetch"
  /\ UNCHANGED <<variant, html_content, preview, smtp, send_calls, success,
                 printed, probe>>

\* Kindle_digest.py 178-185
K_main_fetch ==
  /\ variant = "Kindle_digest"
  /\ pc = "fetch"
  /\ LET i == Len(all_feeds_articles) + 1
         feed_cfg == CONFIG.feeds[i]
     IN  \E feed \in FeedOutcomes(feed_cfg.max_articles) :
           /\ all_feeds_articles' =
                Append(all_feeds_articles,
                       [name |-> feed_cfg.name,
                        articles |-> K_fetch_articles(feed, feed_cfg.max_articles)])
           /\ failed' = IF feed.raises THEN failed \cup {i} ELSE failed
           /\ pc' = IF i = Len(CONFIG.feeds) THEN "render" ELSE "fetch"
  /\ UNCHANGED <<variant, html_content, preview, smtp, send_calls, success,
                 printed, probe>>

\* html_content = create_html_digest(all_feeds_articles)
main_render ==
  /\ variant = "kindle_digest"
  /\ pc = "render"
  /\ html_content' = Rendered(create_html_digest(all_feeds_articles))
  /\ pc' = "preview"
  /\ UNCHANGED <<variant, all_feeds_articles, failed, preview, smtp, send_calls,
                 success, printed, probe>>

K_main_render ==
  /\ variant = "Kindle_digest"
  /\ pc = "render"
  /\ html_content' = Rendered(K_create_html_digest(all_feeds_articles))
  /\ pc' = "preview"
  /\ UNCHANGED <<variant, all_feeds_articles, failed, preview, smtp, send_calls,
                 success, printed, probe>>

\* kindle_digest.py 363-368: the write sits in try / bare except
main_preview ==
  /\ variant = "kindle_digest"
  /\ pc = "preview"
  /\ \E write_ok \in BOOLEAN :
       preview' = IF write_ok THEN html_content ELSE preview
  /\ pc' = "send"
  /\ UNCHANGED <<variant, all_feeds_articles, failed, html_content, smtp,
                 send_calls, success, printed, probe>>

\* Kindle_digest.py 192-194: no handler, an OSError leaves main
K_main_preview ==
  /\ variant = "Kindle_digest"
  /\ pc = "preview"
  /\ \E write_ok \in BOOLEAN :
       /\ preview' = IF write_ok THEN html_content ELSE preview
       /\ pc' = IF write_ok THEN "send" ELSE "raised"
  /\ UNCHANGED <<variant, all_feeds_articles, failed, html_content, smtp,
                 send_calls, success, printed, probe>>

\* success = send_to_kindle(html_content, CONFIG), the whole call
SendToKindle(v) ==
  /\ variant = v
  /\ pc = "send"
  /\ \E failAt \in {"none"} \cup {SendSteps[i] : i \in 1..Len(SendSteps)} :
       /\ smtp' = smtp \o SubSeq(CompletedCalls(failAt), 2, Len(CompletedCalls(failAt)))
       /\ success' = SendReturn(failAt)
  /\ send_calls' = send_calls + 1
  /\ pc' = "report"
  /\ UNCHANGED <<variant, all_feeds_articles, failed, html_content, preview,
                 printed, probe>>

send_to_kindle == SendToKindle("kindle_digest")

K_send_to_kindle == SendToKindle("Kindle_digest")

\* the final if success / else of main
MainReport(v) ==
  /\ variant = v
  /\ pc = "report"
  /\ printed' = IF success = TRUE THEN "done" ELSE "failed"
  /\ pc' = "exit"
  /\ UNCHANGED <<variant, all_feeds_articles, failed, html_content, preview,
                 smtp, send_calls, success, probe>>

main_report == MainReport("kindle_digest")

K_main_report == MainReport("Kindle_digest")

Next ==
  \/ main_fetch
  \/ main_render
  \/ main_preview
  \/ send_to_kindle
  \/ main_report
  \/ K_main_fetch
  \/ K_main_render
  \/ K_main_preview
  \/ K_send_to_kindle
  \/ K_main_report

Spec == Init /\ [][Next]_vars

\* ------------------------------------------- runs of a single function
\* Extraction: one feed with one entry whose page yields a text of a known
\* length; fetch_articles, then create_html_digest.
ProbeShapes == {"one", "two", "triple", "body", "shadow", "nobody", "raises"}

ProbeLens ==
  {4, 5} \cup ((SubstanceThreshold - MaxOver)..(SubstanceThreshold + MaxOver))

ExtractProbes ==
  {[kind |-> "extract", n |-> n, shape |-> sh, entry |-> e] :
     n \in ProbeLens, sh \in ProbeShapes, e \in {EntryA, EntryB, EntryC}}

InitExtract ==
  /\ variant = "kindle_digest"
  /\ pc = "fetch"
  /\ all_feeds_articles = <<>>
  /\ failed = {}
  /\ html_content = NoHtml
  /\ preview = NoHtml
  /\ smtp = <<>>
  /\ send_calls = 0
  /\ success = "unset"
  /\ printed = ""
  /\ probe \in ExtractProbes

\* articles = fetch_articles(url, max_articles) on the probe's feed and page
probe_fetch ==
  /\ pc = "fetch"
  /\ probe.kind = "extract"
  /\ all_feeds_articles' =
       <<[name |-> CONFIG.feeds[1].name,
          articles |->
            fetch_articles([raises |-> FALSE, entries |-> <<probe.entry>>],
                           [k \in 1..MaxArticles |-> ProbePage(probe.n, probe.shape)],
                           CONFIG.feeds[1].max_articles)]>>
  /\ pc' = "render"
  /\ UNCHANGED <<variant, failed, html_content, preview, smtp, send_calls,
                 success, printed, probe>>

NextExtract == probe_fetch \/ main_render

SpecExtract == InitExtract /\ [][NextExtract]_vars

\* Rendering: one feed with one article whose summary is the content under
\* test: every string over Alphabet up to MaxLen characters, and strings of n
\* letters, n around the TOC cut, bare, padded with whitespace or inside tags.
Alphabet == {"<", ">", "a", "\n"}

CutLens ==
  {0, 1} \cup ((TocSummaryLen - MaxOver)..(TocSummaryLen + MaxOver))

Decorate(n, how) ==
  CASE how = "bare" -> Rep("a", n)
    [] how = "padded" -> <<" ", "\n">> \o Rep("a", n) \o <<"\n", "\n", " ">>
    [] how = "tagged" -> <<"<", "b", ">">> \o Rep("a", n) \o <<"<", "/", "b", ">", " ">>

RenderProbes ==
  {[kind |-> "render", n |-> 0 - 1, content |-> c] : c \in SeqsUpTo(Alphabet, MaxLen)}
    \cup {[kind |-> "render", n |-> n, content |-> Decorate(n, how)] :
            n \in CutLens, how \in {"bare", "padded", "tagged"}}

InitRender ==
  /\ variant = "kindle_digest"
  /\ pc = "render"
  /\ probe \in RenderProbes
  /\ all_feeds_articles =
       <<[name |-> CONFIG.feeds[1].name,
          articles |-> <<[title |-> <<"A">>, link |-> <<>>, summary |-> probe.content,
                          published |-> <<"d">>, full_content |-> None]>>]>>
  /\ failed = {}
  /\ html_content = NoHtml
  /\ preview = NoHtml
  /\ smtp = <<>>
  /\ send_calls = 0
  /\ success = "unset"
  /\ printed = ""

SpecRender == InitRender /\ [][main_render]_vars

\* ------------------------------------------------ reading a rendered digest
RECURSIVE AllArticles(_)
\* the articles of all feeds, in feed order then article order
AllArticles(all_feeds) ==
  IF all_feeds = <<>> THEN <<>>
  ELSE all_feeds[1].articles \o AllArticles(Tail(all_feeds))

IsTocItem(x) == x.tag = "toc-item"

IsArticle(x) == x.tag = "article"

IsHeading(x) == x.tag \in {"h2", "h3"}

TocItems(h) == SelectSeq(h.toc, IsTocItem)

Blocks(h) == SelectSeq(h.body, IsArticle)

\* for each heading, its name and the number of entries up to the next heading
RECURSIVE SectionsOf(_, _)
\* walking from the end: entries are counted towards the heading before them
SectionsOf(items, n) ==
  IF n = 0 THEN <<>>
  ELSE LET before == SectionsOf(items, n - 1)
       IN  IF IsHeading(items[n])
             THEN Append(before, [name |-> items[n].name, count |-> 0])
           ELSE IF before = <<>> THEN <<[name |-> "", count |-> 1]>>
           ELSE [before EXCEPT ![Len(before)].count = @ + 1]

NonEmptyFeed(f) == f.articles # <<>>

\* name and article count of every feed that has at least one article
ExpectedSections(all_feeds) ==
  LET ne == SelectSeq(all_feeds, NonEmptyFeed)
  IN  [i \in 1..Len(ne) |-> [name |-> ne[i].name, count |-> Len(ne[i].articles)]]

Done == html_content.rendered

KD == variant = "kindle_digest"

\* ------------------------------------------------------------------ claims
\* C1: the TOC anchors are article-1 .. article-N, N the number of articles of
\* all feeds, in feed order then article order; the body blocks carry the same
\* ids in the same order, and the k-th TOC entry and the k-th block are both
\* built from the k-th article.
C1_AnchorsMatchBlocks ==
  (KD /\ Done) =>
    LET arts == AllArticles(all_feeds_articles)
        items == TocItems(html_content)
        blocks == Blocks(html_content)
    IN  /\ Len(items) = Len(arts)
        /\ Len(blocks) = Len(arts)
        /\ \A k \in 1..Len(arts) :
             /\ items[k].href = <<"#", "article-", k>>
             /\ blocks[k].id = <<"article-", k>>
             /\ items[k].title = arts[k].title
             /\ blocks[k].title = arts[k].title
             /\ blocks[k].link = arts[k].link
             /\ blocks[k].published = arts[k].published
        /\ \A k \in 1..Len(items) :
             Cardinality({j \in 1..Len(blocks) : <<"#">> \o blocks[j].id = items[k].href}) = 1

C1_Witness ==
  /\ KD /\ Done
  /\ Len(all_feeds_articles) >= 2
  /\ Len(all_feeds_articles[1].articles) = 2
  /\ Len(all_feeds_articles[2].articles) = 1
  /\ all_feeds_articles[1].articles[1].title # all_feeds_articles[1].articles[2].title
  /\ TocItems(html_content)[3].href = <<"#", "article-", 3>>
  /\ Blocks(html_content)[3].id = <<"article-", 3>>

\* C2: the effective content of every rendered article is the extracted body
\* when present and non-empty, else the feed summary when non-empty, else the
\* placeholder 'Content not available' in the body block and '' in the TOC.
C2_EffectiveContent ==
  (KD /\ Done) =>
    LET arts == AllArticles(all_feeds_articles)
        items == TocItems(html_content)
        blocks == Blocks(html_content)
        pick(a, placeholder) ==
          IF (~a.full_content.none) /\ a.full_content.val # <<>> THEN a.full_content.val
          ELSE IF a.summary # <<>> THEN a.summary
          ELSE placeholder
    IN  \A k \in 1..Len(arts) :
          /\ blocks[k].content =
               FormatParagraphs(BodyParagraphs(
                 StrStrip(ReSubTags(pick(arts[k], ContentNotAvailable)))))
          /\ items[k].summary = ShortSummary(StrStrip(ReSubTags(pick(arts[k], <<>>))))

\* C3: a feed without articles gets no TOC subsection and no body section; every
\* other feed gets exactly one of each, holding one entry per article, in feed
\* order (both scripts; Kindle_digest.py has no TOC).
C3_EmptyFeedsOmitted ==
  Done =>
    /\ SectionsOf(html_content.body, Len(html_content.body))
         = ExpectedSections(all_feeds_articles)
    /\ KD => SectionsOf(html_content.toc, Len(html_content.toc))
               = ExpectedSections(all_feeds_articles)

C3_Witness ==
  /\ KD /\ Done
  /\ Len(all_feeds_articles) >= 2
  /\ Len(all_feeds_articles[1].articles) = 2
  /\ all_feeds_articles[2].articles = <<>>
  /\ Len(TocItems(html_content)) = 2
  /\ Len(html_content.toc) = 3
  /\ Len(html_content.body) = 3

\* C4: a feed whose fetch throws contributes the empty list, no exception leaves
\* fetch_articles, the results already collected are not touched, there is one
\* result per configured feed in configuration order, and the run goes on to
\* render the digest and to call send_to_kindle.
C4_State ==
  KD =>
    /\ pc # "raised"
    /\ Len(all_feeds_articles) <= Len(CONFIG.feeds)
    /\ \A i \in 1..Len(all_feeds_articles) :
         /\ all_feeds_articles[i].name = CONFIG.feeds[i].name
         /\ i \in failed => all_feeds_articles[i].articles = <<>>
    /\ pc # "fetch" => Len(all_feeds_articles) = Len(CONFIG.feeds)
    /\ pc \in {"preview", "send", "report", "exit"} => Done
    /\ pc \in {"report", "exit"} => send_calls = 1

C4_Step ==
  KD =>
    /\ Len(all_feeds_articles') >= Len(all_feeds_articles)
    /\ \A i \in 1..Len(all_feeds_articles) :
         all_feeds_articles'[i] = all_feeds_articles[i]

C4_FailedFeedsIsolated == [](C4_State) /\ [][C4_Step]_vars

C4_Witness ==
  /\ KD /\ pc = "exit"
  /\ 1 \in failed
  /\ (Len(CONFIG.feeds)) \notin failed
  /\ all_feeds_articles[Len(CONFIG.feeds)].articles # <<>>
  /\ send_calls = 1

\* C5: send_to_kindle returns True exactly when connect, starttls, login,
\* send_message and quit all completed, in that order; any failure gives False
\* and nothing is raised; main calls it once and prints the success summary
\* exactly when it returned True.
C5_SendOutcome ==
  KD =>
    /\ send_calls <= 1
    /\ pc \in {"report", "exit"} =>
         /\ send_calls = 1
         /\ success \in BOOLEAN
         /\ success = TRUE <=>
              smtp = <<"connect", "starttls", "login", "send_message", "quit">>
         /\ \E n \in 0..Len(SendSteps) - 1 : smtp = SubSeq(SendSteps, 2, n + 1)
    /\ pc \notin {"report", "exit"} => success = "unset" /\ smtp = <<>>
    /\ pc = "exit" => (printed = "done" <=> success = TRUE)
    /\ pc = "exit" => (printed = "failed" <=> success = FALSE)
    /\ pc # "exit" => printed = ""

C5_Witness ==
  /\ KD /\ pc = "exit"
  /\ success = FALSE
  /\ smtp = <<"connect", "starttls">>
  /\ printed = "failed"

\* C9: in both scripts no exception leaves main: when the preview file cannot be
\* written the run still calls send_to_kindle with the rendered HTML and prints
\* its final summary.
C9_NoExceptionLeavesMain ==
  /\ pc # "raised"
  /\ pc \in {"send", "report", "exit"} => Done
  /\ pc = "exit" => send_calls = 1 /\ printed \in {"done", "failed"}

Count(calls, step) == Cardinality({i \in 1..Len(calls) : calls[i] = step})

\* C10: in every run of send_to_kindle at most one session is opened, at most
\* one message is sent, and a session that was opened has been closed with quit
\* when send_to_kindle returns, on the success path and on every failure path.
C10_SessionClosed ==
  pc \in {"report", "exit"} =>
    /\ Count(smtp, "connect") <= 1
    /\ Count(smtp, "send_message") <= 1
    /\ Has(smtp, "connect") => Has(smtp, "quit")

\* a match of the tag pattern '<[^<]+?>' somewhere in s
TagShaped(s) == \E i \in 1..Len(s) : TagMatchEnd(s, i) # 0

\* C6: for every content string, the text re-embedded in the TOC summary and in
\* the body paragraphs holds no tag-shaped sequence '<' ... '>' coming from that
\* content (the renderer's own <p> and </p> are the tokens "<p>" and "</p>").
C6_NoTagsRemain ==
  (probe.kind = "render" /\ Done) =>
    /\ ~TagShaped(TocItems(html_content)[1].summary)
    /\ ~TagShaped(Blocks(html_content)[1].content)

\* the text the probe's page yields, when it yields one
ProbeHasText == probe.shape \in {"one", "two", "triple", "body", "shadow"}

ProbeTextLen == IF probe.shape = "shadow" THEN 1 ELSE probe.n

\* C7: the extracted text is stored as full_content exactly when it is longer
\* than 200 characters (200 and less give None); with None the article is what a
\* failed fetch leaves, and its TOC entry and body block come from the summary.
C7_SubstanceThreshold ==
  (probe.kind = "extract" /\ pc # "fetch") =>
    LET a == all_feeds_articles[1].articles[1]
        stored == /\ a.link # <<>>
                  /\ ProbeHasText
                  /\ ProbeTextLen > 200
    IN  /\ stored => (~a.full_content.none) /\ Len(a.full_content.val) = probe.n
        /\ ~stored => a.full_content = None
        /\ a.full_content.none =>
             /\ a = MakeArticle(probe.entry)
             /\ Done =>
                  /\ Blocks(html_content)[1].content =
                       FormatParagraphs(BodyParagraphs(StrStrip(ReSubTags(a.summary))))
                  /\ TocItems(html_content)[1].summary =
                       ShortSummary(StrStrip(ReSubTags(a.summary)))
        /\ (Done /\ ~a.full_content.none) =>
             Len(TocItems(html_content)[1].summary) = TocSummaryLen + 3

C7_Witness ==
  /\ probe.kind = "extract" /\ Done
  /\ probe.n = 200
  /\ probe.shape = "two"
  /\ probe.entry = EntryA
  /\ all_feeds_articles[1].articles[1].full_content = None
  /\ Blocks(html_content)[1].content = <<"<p>", "S", " ", "s", "</p>">>

\* C8: the TOC short summary is the tag-stripped, trimmed content c itself when
\* len(c) <= 150 and the first 150 characters of c followed by '...' when
\* len(c) > 150, so it is never longer than 153 characters.
C8_TruncationLaw ==
  (probe.kind = "render" /\ Done) =>
    LET short == TocItems(html_content)[1].summary
    IN  /\ Len(short) <= 153
        /\ probe.n >= 0 =>
             short = IF probe.n <= 150 THEN Rep("a", probe.n)
                     ELSE Rep("a", 150) \o <<".", ".", ".">>
        /\ probe.n < 0 => short = StrStrip(ReSubTags(probe.content))

C8_Witness ==
  /\ probe.kind = "render" /\ Done
  /\ probe.n = 151
  /\ Len(probe.content) > 151
  /\ Len(TocItems(html_content)[1].summary) = 153

\* the <h2> source headings of the body, in document order
BodyHeadings(h) == SelectSeq(h.body, IsHeading)

\* C11: in the body the first rendered source section (the first feed with at
\* least one article) has no page-break class and every later rendered section
\* has the class 'source-divider', also when leading feeds are empty.
C11_FirstSectionNoBreak ==
  (KD /\ Done) =>
    LET heads == BodyHeadings(html_content)
    IN  \A i \in 1..Len(heads) :
          heads[i].class = IF i = 1 THEN "" ELSE "source-divider"

====
